---- MODULE Spec2Model ----
(***************************************************************************)
(* Model of the metadata catalog's population pipeline                     *)
(* (database/setup.py: populate_database and                               *)
(* _link_datasets_with_publications), of the entity store it writes to,    *)
(* and of the two read endpoints exercised by tests/test_get_datasets.py   *)
(* and tests/test_get_dataset_openml.py.                                   *)
(*                                                                         *)
(* A node-specific identifier is a Python str; it is modelled as a         *)
(* sequence of one-character strings so that int(str) can be computed.     *)
(***************************************************************************)
EXTENDS Integers, Sequences, FiniteSets, TLC

(***************************************************************************)
(* Bounds of the model.                                                    *)
(***************************************************************************)
\* number of callers that may issue populate_database calls
NumCallers == 2
\* number of populate_database calls a behaviour may start
MaxCalls == 2
\* longest dataset list and longest publication list handed to the linker on its own
MaxLinkDatasets == 2
MaxLinkPublications == 2

Callers == 1..NumCallers

(***************************************************************************)
(* Sequence helpers.                                                       *)
(***************************************************************************)
\* the sequences over S of length 0..n
SeqUpTo(S, n) == UNION {[1..k -> S] : k \in 0..n}

\* the range of a sequence
Range(s) == {s[i] : i \in DOMAIN s}

\* s[1..n], or all of s when it is shorter
Take(s, n) == IF n >= Len(s) THEN s ELSE SubSeq(s, 1, n)

\* the concatenation of a sequence of sequences (itertools.chain(*lists))
RECURSIVE Chain(_)
Chain(ss) == IF ss = <<>> THEN <<>> ELSE Head(ss) \o Chain(Tail(ss))

\* a sequence of one-character strings as one string
RECURSIVE Str(_)
Str(cs) == IF cs = <<>> THEN "" ELSE Head(cs) \o Str(Tail(cs))

(***************************************************************************)
(* Python's int(str), base 10: surrounding whitespace is stripped, one     *)
(* sign is allowed, then digits, with single underscores between digits.   *)
(* Anything else raises ValueError.                                        *)
(***************************************************************************)
DigitChars == {"0", "1", "2", "3", "4", "5", "6", "7", "8", "9"}

DigitVal(c) ==
    CASE c = "0" -> 0 [] c = "1" -> 1 [] c = "2" -> 2 [] c = "3" -> 3
      [] c = "4" -> 4 [] c = "5" -> 5 [] c = "6" -> 6 [] c = "7" -> 7
      [] c = "8" -> 8 [] c = "9" -> 9

RECURSIVE LStrip(_)
LStrip(cs) == IF cs /= <<>> /\ Head(cs) = " " THEN LStrip(Tail(cs)) ELSE cs

RECURSIVE RStrip(_)
RStrip(cs) ==
    IF cs /= <<>> /\ cs[Len(cs)] = " " THEN RStrip(SubSeq(cs, 1, Len(cs) - 1)) ELSE cs

Strip(cs) == RStrip(LStrip(cs))

\* digits, single underscores only between two digits
ValidDigits(cs) ==
    /\ cs /= <<>>
    /\ \A i \in DOMAIN cs : cs[i] \in DigitChars \cup {"_"}
    /\ cs[1] /= "_"
    /\ cs[Len(cs)] /= "_"
    /\ \A i \in 1..(Len(cs) - 1) : ~(cs[i] = "_" /\ cs[i + 1] = "_")

RECURSIVE DigitsValue(_, _)
DigitsValue(cs, acc) ==
    IF cs = <<>> THEN acc
    ELSE IF Head(cs) = "_" THEN DigitsValue(Tail(cs), acc)
    ELSE DigitsValue(Tail(cs), 10 * acc + DigitVal(Head(cs)))

\* int(cs): [ok |-> TRUE, val |-> n], or [ok |-> FALSE] for ValueError
ParseInt(cs) ==
    LET t == Strip(cs)
        signed == t /= <<>> /\ Head(t) \in {"+", "-"}
        body == IF signed THEN Tail(t) ELSE t
    IN  IF ValidDigits(body)
        THEN [ok |-> TRUE,
              val |-> IF signed /\ Head(t) = "-"
                      THEN 0 - DigitsValue(body, 0) ELSE DigitsValue(body, 0)]
        ELSE [ok |-> FALSE, val |-> 0]

(***************************************************************************)
(* The literals of _link_datasets_with_publications.                       *)
(***************************************************************************)
benchmark_dataset_ids ==
    {181, 1111, 1596, 1457, 40981, 40983, 23517, 1489, 31, 40982, 41138, 41163, 41164, 41143,
     1169, 41167, 41147, 41158, 1487, 54, 41144, 41145, 41156, 41157, 41168, 4541, 1515, 188,
     1464, 1494, 1468, 1049, 23, 40975, 12, 1067, 40984, 40670, 3, 40978, 4134, 40701, 1475,
     4538, 4534, 41146, 41142, 40498, 40900, 40996, 40668, 4135, 1486, 41027, 1461, 1590, 41169,
     41166, 41165, 40685, 41159, 41161, 41150, 41162, 42733, 42734, 42732, 42746, 42742, 42769,
     43072}

benchmark_title == "AMLB: an AutoML Benchmark"

higgs_title == "Searching for exotic particles in high-energy physics with deep learning"

(***************************************************************************)
(* Records.  A fetched dataset is [name, node, node_specific_identifier];  *)
(* a fetched publication is [title, datasets], where datasets lists the    *)
(* dataset objects it references, each named by its position in the batch  *)
(* of fetched datasets (an object's identity, not its field values).       *)
(***************************************************************************)
Titles == {benchmark_title, higgs_title, "Some other paper"}

\* the identifiers that are looked up: "181" and "1" are integers, "x" is not
LookupIdentifiers == {<<"1", "8", "1">>, <<"1">>, <<"x">>}

DatasetDescription(name, node, identifier) ==
    [name |-> name, node |-> node, node_specific_identifier |-> identifier]

Publication(title, refs) == [title |-> title, datasets |-> refs]

\* the datasets handed to the linker on its own: each combination of the conditions
\* it tests (node, name, identifier in the allow-list, identifier an integer)
AllDatasets ==
    {DatasetDescription("Higgs", "openml", <<"1", "8", "1">>),
     DatasetDescription("Higgs", "openml", <<"1">>),
     DatasetDescription("anneal", "openml", <<"0", "3">>),
     DatasetDescription("anneal", "openml", <<"1">>),
     DatasetDescription("anneal", "openml", <<"x">>),
     DatasetDescription("Higgs", "other_node", <<"1", "8", "1">>),
     DatasetDescription("anneal", "other_node", <<"x">>)}

\* the members of a set of positions, ascending
RECURSIVE Ascending(_)
Ascending(S) ==
    IF S = {} THEN <<>>
    ELSE LET m == CHOOSE x \in S : \A y \in S : x <= y
         IN  <<m>> \o Ascending(S \ {m})

(***************************************************************************)
(* _link_datasets_with_publications(datasets, publications).               *)
(* int() is reached only for datasets of node "openml" (short-circuit      *)
(* `and`); one such dataset with a non-integer identifier raises.          *)
(***************************************************************************)
\* an int() that is evaluated for the datasets of every node
LinkRaises_AnyNode(datasets) ==
    \E i \in DOMAIN datasets : ~ParseInt(datasets[i].node_specific_identifier).ok

\* lines 102-106: does a dataset of "openml" carry an identifier int() rejects?
LinkRaises(datasets) ==
    \E i \in DOMAIN datasets :
        /\ datasets[i].node = "openml"
        /\ ~ParseInt(datasets[i].node_specific_identifier).ok

\* the allow-list applied to the datasets of every node
benchmark_datasets_AnyNode(datasets) ==
    Ascending({i \in DOMAIN datasets :
        /\ ParseInt(datasets[i].node_specific_identifier).ok
        /\ ParseInt(datasets[i].node_specific_identifier).val \in benchmark_dataset_ids})

benchmark_datasets(datasets) ==
    Ascending({i \in DOMAIN datasets :
        /\ datasets[i].node = "openml"
        /\ ParseInt(datasets[i].node_specific_identifier).ok
        /\ ParseInt(datasets[i].node_specific_identifier).val \in benchmark_dataset_ids})

\* the name rule applied to the datasets of every node
higgs_datasets_AnyNode(datasets) ==
    Ascending({i \in DOMAIN datasets : datasets[i].name = "Higgs"})

higgs_datasets(datasets) ==
    Ascending({i \in DOMAIN datasets :
        datasets[i].node = "openml" /\ datasets[i].name = "Higgs"})

\* an assignment that keeps what the attribute held and adds the new value to it
Assigned_Extending(prior, value) == Ascending(Range(prior) \cup Range(value))

\* lines 111 and 113: `publication.datasets = value` replaces what the attribute held
Assigned(prior, value) == value

\* two loops that also reset the datasets of the publications they do not select
LinkedPublications_ResetsOthers(datasets, publications) ==
    [j \in DOMAIN publications |->
        IF publications[j].title = benchmark_title
        THEN [publications[j] EXCEPT !.datasets = Assigned(@, benchmark_datasets(datasets))]
        ELSE IF publications[j].title = higgs_title
        THEN [publications[j] EXCEPT !.datasets = Assigned(@, higgs_datasets(datasets))]
        ELSE [publications[j] EXCEPT !.datasets = <<>>]]

\* the publications after the two assignment loops
LinkedPublications(datasets, publications) ==
    [j \in DOMAIN publications |->
        IF publications[j].title = benchmark_title
        THEN [publications[j] EXCEPT !.datasets = Assigned(@, benchmark_datasets(datasets))]
        ELSE IF publications[j].title = higgs_title
        THEN [publications[j] EXCEPT !.datasets = Assigned(@, higgs_datasets(datasets))]
        ELSE publications[j]]

(***************************************************************************)
(* Connectors.  A connector either fails on fetch_all or yields the first  *)
(* `limit` records it holds upstream (all of them when limit is None).     *)
(***************************************************************************)
\* limit=None, the default of limit_datasets and limit_publications
NoLimit == -1

Limits == {NoLimit, 1}

\* an Optional list of connectors: None, or a list
NoConnectors == [is_none |-> TRUE, items |-> <<>>]

ConnectorList(cs) == [is_none |-> FALSE, items |-> cs]

FailingConnector == [fails |-> TRUE, records |-> <<>>]

Connector(records) == [fails |-> FALSE, records |-> records]

fetch_all(c, limit) == IF limit = NoLimit THEN c.records ELSE Take(c.records, limit)

\* the two dataset connectors and the publication connector of the deployment
ConnectorA ==
    Connector(<<DatasetDescription("Higgs", "openml", <<"1", "8", "1">>),
                DatasetDescription("Higgs", "other_node", <<"x">>)>>)

ConnectorB ==
    Connector(<<DatasetDescription("anneal", "openml", <<"1">>),
                DatasetDescription("anneal", "openml", <<"x">>)>>)

ConnectorP ==
    Connector(<<Publication(benchmark_title, <<>>), Publication(higgs_title, <<>>),
                Publication("Some other paper", <<>>)>>)

\* the values of dataset_connectors: None, or a list of connectors
DatasetConnectors ==
    {NoConnectors, ConnectorList(<<>>), ConnectorList(<<ConnectorA>>),
     ConnectorList(<<ConnectorA, ConnectorB>>),
     ConnectorList(<<ConnectorA, FailingConnector>>)}

\* the values of publications_connectors: None, or a list of connectors
PublicationConnectors ==
    {NoConnectors, ConnectorList(<<ConnectorP>>),
     ConnectorList(<<ConnectorP, FailingConnector>>)}

Configs ==
    [dataset_connectors : DatasetConnectors,
     publications_connectors : PublicationConnectors,
     limit_datasets : Limits,
     limit_publications : Limits]

\* the number of connectors of a call's two lists
ConnectorCount(cfg) ==
    Len(cfg.dataset_connectors.items) + Len(cfg.publications_connectors.items)

\* lines 60-62 and 66-68: one fetch_all invocation per connector.  fetch_all returns
\* a lazy sequence, so a connector that fails raises when its sequence is consumed at
\* line 70 or 71, after every fetch_all has been invoked
FetchAllEvents(cfg) == [i \in 1..ConnectorCount(cfg) |-> "fetch_all"]

\* a materialisation that passes over a connector that fails
FetchRaises_Swallowed(connectors) == FALSE

\* lines 57-71: does materialising the connectors' output raise?
FetchRaises(connectors) ==
    ~connectors.is_none /\ \E k \in DOMAIN connectors.items : connectors.items[k].fails

\* lines 57-71: list(itertools.chain(*[c.fetch_all(limit=limit) for c in connectors]))
Materialize(connectors, limit) ==
    IF connectors.is_none THEN <<>>
    ELSE Chain([k \in DOMAIN connectors.items |-> fetch_all(connectors.items[k], limit)])

(***************************************************************************)
(* State.                                                                  *)
(***************************************************************************)
VARIABLES
    dataset_table,      \* rows [id, name, node, node_specific_identifier]
    publication_table,  \* rows [id, title]
    link_table,         \* rows [publication_id, dataset_id] of the association table
    pc,                 \* per caller: where its populate_database call stands
    only_if_empty,      \* per caller: the argument of its call
    config,             \* per caller: connectors and limits of its call
    datasets,           \* per caller: the local list `datasets`
    publications,       \* per caller: the local list `publications`
    data_exists,        \* per caller: the local `data_exists`
    before,             \* per caller: the store when its call started
    repeat,             \* per caller: its call repeats the call that ended before it
    given,              \* per caller: the two lists as they were handed to the linker
    events,             \* per caller: what its call has done so far, in order
    calls,              \* populate_database calls started so far
    last,               \* the summary of the populate_database call that ended last
    response,           \* the reply of a read endpoint on its way to the client
    database_exists,    \* the server holds the target database
    tables,             \* the names of the tables of the target database
    connection          \* the summary of the connect_to_database call that ended last

store_vars == <<dataset_table, publication_table, link_table>>

call_vars ==
    <<pc, only_if_empty, config, datasets, publications, data_exists, before, repeat,
      given, events>>

db_vars == <<database_exists, tables, connection>>

vars == <<dataset_table, publication_table, link_table, pc, only_if_empty, config,
          datasets, publications, data_exists, before, repeat, given, events, calls,
          last, response, database_exists, tables, connection>>

\* the store's contents as one value
Store == [datasets |-> dataset_table, publications |-> publication_table,
          links |-> link_table]

EmptyStore == [datasets |-> {}, publications |-> {}, links |-> {}]

NoConfig == [dataset_connectors |-> NoConnectors, publications_connectors |-> NoConnectors,
             limit_datasets |-> NoLimit, limit_publications |-> NoLimit]

\* a store that holds a dataset row or a publication row
NonEmptyStore(st) == st.datasets /= {} \/ st.publications /= {}

\* nothing has been handed to the linker
NotGiven == [datasets |-> <<>>, publications |-> <<>>]

\* no reply is on its way to a client
NoResponse == [kind |-> "none", status |-> 0]

\* the state of a caller that is not inside populate_database
Idle(p) ==
    /\ pc' = [pc EXCEPT ![p] = "idle"]
    /\ only_if_empty' = [only_if_empty EXCEPT ![p] = TRUE]
    /\ config' = [config EXCEPT ![p] = NoConfig]
    /\ datasets' = [datasets EXCEPT ![p] = <<>>]
    /\ publications' = [publications EXCEPT ![p] = <<>>]
    /\ data_exists' = [data_exists EXCEPT ![p] = FALSE]
    /\ before' = [before EXCEPT ![p] = EmptyStore]
    /\ repeat' = [repeat EXCEPT ![p] = FALSE]
    /\ given' = [given EXCEPT ![p] = NotGiven]
    /\ events' = [events EXCEPT ![p] = <<>>]

\* no populate_database call has ended yet
NoCall == [outcome |-> "none", only_if_empty |-> TRUE, config |-> NoConfig,
           before |-> EmptyStore, datasets |-> <<>>, publications |-> <<>>,
           repeat |-> FALSE, events |-> <<>>, data_exists |-> FALSE,
           found |-> EmptyStore, rival |-> FALSE]

\* the summary of caller p's call, ending with outcome o, batch ds, ps and events ev:
\* found is the store the call leaves from, rival tells that a call with
\* only_if_empty set, started on an empty store, committed while this one ran
Summary(p, o, ds, ps, ev) ==
    [outcome |-> o, only_if_empty |-> only_if_empty[p], config |-> config[p],
     before |-> before[p], datasets |-> ds, publications |-> ps, repeat |-> repeat[p],
     events |-> ev, data_exists |-> data_exists[p], found |-> Store,
     rival |-> /\ last.outcome = "committed"
               /\ last.only_if_empty
               /\ last.before = EmptyStore]

\* a call with arguments oie, cfg repeats the call that ended last: that call started
\* on an empty store with the same arguments, and only_if_empty is set in both
Repeats(oie, cfg) ==
    /\ last.outcome /= "none"
    /\ last.only_if_empty /\ oie
    /\ last.config = cfg
    /\ last.before = EmptyStore

\* the tables Base.metadata.create_all creates: one per model and the table that
\* associates publications with datasets
SchemaTables == {"dataset_description", "publication", "dataset_publication"}

\* no connect_to_database call has ended yet
NoConnection ==
    [outcome |-> "none", create_if_not_exists |-> TRUE, delete_first |-> FALSE,
     existed |-> TRUE, tables |-> SchemaTables, store |-> EmptyStore, checked |-> {}]

Init ==
    /\ dataset_table = {}
    /\ publication_table = {}
    /\ link_table = {}
    /\ pc = [p \in Callers |-> "idle"]
    /\ only_if_empty = [p \in Callers |-> TRUE]
    /\ config = [p \in Callers |-> NoConfig]
    /\ datasets = [p \in Callers |-> <<>>]
    /\ publications = [p \in Callers |-> <<>>]
    /\ data_exists = [p \in Callers |-> FALSE]
    /\ before = [p \in Callers |-> EmptyStore]
    /\ repeat = [p \in Callers |-> FALSE]
    /\ given = [p \in Callers |-> NotGiven]
    /\ events = [p \in Callers |-> <<>>]
    /\ database_exists = TRUE
    /\ tables = SchemaTables
    /\ connection = NoConnection
    /\ calls = 0
    /\ last = NoCall
    /\ response = NoResponse

(***************************************************************************)
(* populate_database, one action per step of the call.                     *)
(***************************************************************************)
\* the call is made: populate_database(engine, oie, cfg...)
Call(p, oie, cfg) ==
    /\ pc[p] = "idle"
    /\ calls < MaxCalls
    /\ calls' = calls + 1
    /\ pc' = [pc EXCEPT ![p] = "fetch"]
    /\ only_if_empty' = [only_if_empty EXCEPT ![p] = oie]
    /\ config' = [config EXCEPT ![p] = cfg]
    /\ before' = [before EXCEPT ![p] = Store]
    /\ repeat' = [repeat EXCEPT ![p] = Repeats(oie, cfg)]
    /\ last' = NoCall
    /\ UNCHANGED <<store_vars, datasets, publications, data_exists, given, events,
                   response, db_vars>>

\* requests that take turns: a call starts when no other call is running and no reply
\* is on its way
SequentialCall(p) ==
    /\ \A q \in Callers : pc[q] = "idle"
    /\ response = NoResponse
    /\ \E oie \in BOOLEAN, cfg \in Configs : Call(p, oie, cfg)

\* lines 57-71: both lists are materialised; a failing fetch_all ends the call
Fetch(p) ==
    /\ pc[p] = "fetch"
    /\ IF \/ FetchRaises(config[p].dataset_connectors)
          \/ FetchRaises(config[p].publications_connectors)
       THEN /\ Idle(p)
            /\ last' = Summary(p, "fetch_raised", <<>>, <<>>, FetchAllEvents(config[p]))
       ELSE /\ datasets' = [datasets EXCEPT ![p] =
                   Materialize(config[p].dataset_connectors, config[p].limit_datasets)]
            /\ publications' = [publications EXCEPT ![p] =
                   Materialize(config[p].publications_connectors,
                               config[p].limit_publications)]
            /\ events' = [events EXCEPT ![p] = FetchAllEvents(config[p])]
            /\ pc' = [pc EXCEPT ![p] = "link"]
            /\ UNCHANGED <<only_if_empty, config, data_exists, before, repeat, given,
                           last>>
    /\ UNCHANGED <<store_vars, calls, response, db_vars>>

\* line 75: _link_datasets_with_publications(datasets, publications)
Link(p) ==
    /\ pc[p] = "link"
    /\ IF LinkRaises(datasets[p])
       THEN /\ Idle(p)
            /\ last' = Summary(p, "link_raised", datasets[p], publications[p],
                               Append(events[p], "link"))
       ELSE /\ publications' = [publications EXCEPT ![p] =
                   LinkedPublications(datasets[p], publications[p])]
            /\ given' = [given EXCEPT ![p] =
                   [datasets |-> datasets[p], publications |-> publications[p]]]
            /\ events' = [events EXCEPT ![p] = Append(events[p], "link")]
            /\ pc' = [pc EXCEPT ![p] = "session"]
            /\ UNCHANGED <<only_if_empty, config, datasets, data_exists, before, repeat,
                           last>>
    /\ UNCHANGED <<store_vars, calls, response, db_vars>>

\* the existence check without its second operand
HasAnyData_PublicationsOnly == publication_table /= {}

\* lines 77-80: is there a Publication row or a DatasetDescription row?
HasAnyData == publication_table /= {} \/ dataset_table /= {}

ReadStore(p) ==
    /\ pc[p] = "session"
    /\ data_exists' = [data_exists EXCEPT ![p] = HasAnyData]
    /\ events' = [events EXCEPT ![p] = Append(events[p], "select")]
    /\ pc' = [pc EXCEPT ![p] = "decide"]
    /\ UNCHANGED <<store_vars, only_if_empty, config, datasets, publications, before,
                   repeat, given, calls, last, response, db_vars>>

\* the auto-increment key of the next row of a table
NextId(table) ==
    IF table = {} THEN 1
    ELSE 1 + (CHOOSE m \in {r.id : r \in table} : \A r \in table : r.id <= m)

\* keys that restart at 1 with every commit
NewDatasetRows_KeysRestart(ds) ==
    {[id |-> i, name |-> ds[i].name, node |-> ds[i].node,
      node_specific_identifier |-> ds[i].node_specific_identifier] : i \in DOMAIN ds}

\* lines 84-86: the rows session.add_all(datasets) adds at commit
NewDatasetRows(ds) ==
    {[id |-> NextId(dataset_table) + i - 1, name |-> ds[i].name, node |-> ds[i].node,
      node_specific_identifier |-> ds[i].node_specific_identifier] : i \in DOMAIN ds}

\* a commit that loses the publications
NewPublicationRows_Lost(ps) == {}

\* lines 84-86: the rows session.add_all(publications) adds at commit
NewPublicationRows(ps) ==
    {[id |-> NextId(publication_table) + j - 1, title |-> ps[j].title] : j \in DOMAIN ps}

\* lines 84-86: the association rows derived from publication.datasets at commit
NewLinkRows(ps) ==
    UNION {{[publication_id |-> NextId(publication_table) + j - 1,
             dataset_id |-> NextId(dataset_table) + ps[j].datasets[k] - 1] :
                k \in DOMAIN ps[j].datasets} : j \in DOMAIN ps}

\* the guard with its flag inverted
ShouldReturn_Inverted(oie, exists) == ~oie /\ exists

\* line 81: `if only_if_empty and data_exists`
ShouldReturn(oie, exists) == oie /\ exists

\* a commit that replaces what the table held
add_all_Replacing(table, rows) == rows

\* lines 84-86: add_all and commit insert the new rows next to the rows of the table
add_all(table, rows) == table \cup rows

\* a call that looks at the store again when it commits
Decide_Rechecks(p) ==
    /\ pc[p] = "decide"
    /\ IF ShouldReturn(only_if_empty[p], HasAnyData)
       THEN /\ UNCHANGED store_vars
            /\ last' = Summary(p, "returned", datasets[p], publications[p], events[p])
       ELSE /\ dataset_table' = add_all(dataset_table, NewDatasetRows(datasets[p]))
            /\ publication_table' =
                   add_all(publication_table, NewPublicationRows(publications[p]))
            /\ link_table' = add_all(link_table, NewLinkRows(publications[p]))
            /\ last' = Summary(p, "committed", datasets[p], publications[p],
                               Append(events[p], "commit"))
    /\ Idle(p)
    /\ UNCHANGED <<calls, response, db_vars>>

\* lines 81-86: return when guarded and data exists, else add everything and commit
Decide(p) ==
    /\ pc[p] = "decide"
    /\ IF ShouldReturn(only_if_empty[p], data_exists[p])
       THEN /\ UNCHANGED store_vars
            /\ last' = Summary(p, "returned", datasets[p], publications[p], events[p])
       ELSE /\ dataset_table' = add_all(dataset_table, NewDatasetRows(datasets[p]))
            /\ publication_table' =
                   add_all(publication_table, NewPublicationRows(publications[p]))
            /\ link_table' = add_all(link_table, NewLinkRows(publications[p]))
            /\ last' = Summary(p, "committed", datasets[p], publications[p],
                               Append(events[p], "commit"))
    /\ Idle(p)
    /\ UNCHANGED <<calls, response, db_vars>>

(***************************************************************************)
(* The read endpoints, as tests/test_get_dataset_openml.py and             *)
(* tests/test_get_datasets.py pin them down.  A read is one query against  *)
(* the committed store; requests take turns, so it is served while no      *)
(* populate_database call runs and no other reply is on its way.           *)
(***************************************************************************)
\* the nodes a connector is registered for, with the name its errors carry
ConnectorNodes == {"openml"}

ConnectorName(node) == IF node = "openml" THEN "OpenML" ELSE node

\* what the node's registry may answer to the connector's requests for one identifier:
\* the data_set_description and its qualities, or an error message
UpstreamReplies(identifier) ==
    {[ok |-> TRUE, message |-> "",
      data |-> [id |-> Str(identifier), name |-> n, description |-> d,
                url |-> "https://www.openml.org/data/download/1666876/phpFsFYVN",
                format |-> f, instances |-> k]] :
        n \in {"anneal", "kr-vs-kp"}, d \in {"d1"}, f \in {"ARFF"}, k \in {898}}
    \cup
    {[ok |-> FALSE, message |-> m,
      data |-> [id |-> "", name |-> "", description |-> "", url |-> "", format |-> "",
                instances |-> 0]] :
        m \in {"Unknown dataset", "No results"}}

\* the rows of the store with this natural key
find_dataset(node, identifier) ==
    {r \in dataset_table : r.node = node /\ r.node_specific_identifier = identifier}

\* a reply that takes its name from the description
DatasetReply_NameFromDescription(node, reply) ==
    [name |-> reply.data.description,
     description |-> reply.data.description,
     distribution |-> [contentUrl |-> reply.data.url, encodingFormat |-> reply.data.format],
     size |-> [value |-> reply.data.instances],
     includedInDataCatalog |-> [name |-> ConnectorName(node)],
     identifier |-> reply.data.id]

\* test_get_dataset_openml.py lines 33-39: the fields of a successful reply
DatasetReply(node, reply) ==
    [name |-> reply.data.name,
     description |-> reply.data.description,
     distribution |-> [contentUrl |-> reply.data.url, encodingFormat |-> reply.data.format],
     size |-> [value |-> reply.data.instances],
     includedInDataCatalog |-> [name |-> ConnectorName(node)],
     identifier |-> reply.data.id]

\* a detail with the identifier and the node in each other's place
NotInDatabase_Swapped(node, identifier) ==
    "Dataset '" \o node \o "' of '" \o Str(identifier) \o "' not found in the database."

NotInDatabase(node, identifier) ==
    "Dataset '" \o Str(identifier) \o "' of '" \o node \o "' not found in the database."

\* an error detail that drops the registry's message
FetchError_NoMessage(node, message) ==
    "Error while fetching data from " \o ConnectorName(node)

FetchError(node, message) ==
    "Error while fetching data from " \o ConnectorName(node) \o ": '" \o message \o "'"

\* a lookup that answers from the store on a hit and asks the registry on a miss
get_dataset_ReadThrough(node, identifier, reply) ==
    LET request == [node |-> node, identifier |-> identifier, upstream |-> reply]
        row == CHOOSE r \in find_dataset(node, identifier) : TRUE
    IN  IF find_dataset(node, identifier) /= {}
        THEN [kind |-> "dataset", status |-> 200, request |-> request,
              connector_calls |-> 0,
              body |-> [name |-> row.name, node |-> row.node,
                        identifier |-> Str(row.node_specific_identifier)]]
        ELSE IF ~reply.ok
        THEN [kind |-> "dataset", status |-> 404, request |-> request,
              connector_calls |-> 1,
              detail |-> FetchError(node, reply.message)]
        ELSE [kind |-> "dataset", status |-> 200, request |-> request,
              connector_calls |-> 1,
              body |-> DatasetReply(node, reply)]

\* GET /nodes/{node}/datasets/{identifier} with the registry answering `reply`
get_dataset(node, identifier, reply) ==
    LET request == [node |-> node, identifier |-> identifier, upstream |-> reply]
    IN  IF find_dataset(node, identifier) = {}
        THEN [kind |-> "dataset", status |-> 404, request |-> request,
              connector_calls |-> 0,
              detail |-> NotInDatabase(node, identifier)]
        ELSE IF ~reply.ok
        THEN [kind |-> "dataset", status |-> 404, request |-> request,
              connector_calls |-> 1,
              detail |-> FetchError(node, reply.message)]
        ELSE [kind |-> "dataset", status |-> 200, request |-> request,
              connector_calls |-> 1,
              body |-> DatasetReply(node, reply)]

GetDataset ==
    /\ \A q \in Callers : pc[q] = "idle"
    /\ response = NoResponse
    /\ \E node \in ConnectorNodes, identifier \in LookupIdentifiers :
          \E reply \in UpstreamReplies(identifier) :
              response' = get_dataset(node, identifier, reply)
    /\ UNCHANGED <<store_vars, call_vars, calls, last, db_vars>>

\* the rows of a table as a list, by ascending id
RECURSIVE OrderedById(_)
OrderedById(table) ==
    IF table = {} THEN <<>>
    ELSE LET r == CHOOSE x \in table : \A y \in table : x.id <= y.id
         IN  <<r>> \o OrderedById(table \ {r})

\* GET /datasets
list_datasets ==
    LET rows == OrderedById(dataset_table)
    IN  [kind |-> "list", status |-> 200,
         body |-> [i \in DOMAIN rows |->
                      [id |-> rows[i].id, name |-> rows[i].name, node |-> rows[i].node,
                       node_specific_identifier |-> rows[i].node_specific_identifier]]]

ListDatasets ==
    /\ \A q \in Callers : pc[q] = "idle"
    /\ response = NoResponse
    /\ response' = list_datasets
    /\ UNCHANGED <<store_vars, call_vars, calls, last, db_vars>>

\* the client receives the reply
Respond ==
    /\ response /= NoResponse
    /\ response' = NoResponse
    /\ UNCHANGED <<store_vars, call_vars, calls, last, db_vars>>

Next ==
    \E p \in Callers :
        \/ SequentialCall(p)
        \/ Fetch(p)
        \/ Link(p)
        \/ ReadStore(p)
        \/ Decide(p)
        \/ GetDataset
        \/ ListDatasets
        \/ Respond

Spec == Init /\ [][Next]_vars

(***************************************************************************)
(* The linker on its own: one caller stands before line 75 with any lists  *)
(* of datasets and publications, and the publications may already          *)
(* reference any of the datasets.                                          *)
(***************************************************************************)
\* what a publication may reference before linking: nothing, the first dataset of the
\* batch, or all of them
References(n) == {Ascending(S) : S \in {{}, 1..n, {i \in 1..n : i = 1}}}

LinkInit ==
    /\ dataset_table = {}
    /\ publication_table = {}
    /\ link_table = {}
    /\ pc = [p \in Callers |-> IF p = 1 THEN "link" ELSE "idle"]
    /\ only_if_empty = [p \in Callers |-> TRUE]
    /\ config = [p \in Callers |-> NoConfig]
    /\ \E ds \in SeqUpTo(AllDatasets, MaxLinkDatasets) :
          /\ datasets = [p \in Callers |-> IF p = 1 THEN ds ELSE <<>>]
          /\ \E ps \in SeqUpTo([title : Titles, datasets : References(Len(ds))],
                                MaxLinkPublications) :
                publications = [p \in Callers |-> IF p = 1 THEN ps ELSE <<>>]
    /\ data_exists = [p \in Callers |-> FALSE]
    /\ before = [p \in Callers |-> EmptyStore]
    /\ repeat = [p \in Callers |-> FALSE]
    /\ given = [p \in Callers |-> NotGiven]
    /\ events = [p \in Callers |-> <<>>]
    /\ database_exists = TRUE
    /\ tables = SchemaTables
    /\ connection = NoConnection
    /\ calls = 1
    /\ last = NoCall
    /\ response = NoResponse

LinkNext == \E p \in Callers : Link(p)

LinkSpec == LinkInit /\ [][LinkNext]_vars

(***************************************************************************)
(* connect_to_database(url, create_if_not_exists, delete_first), lines     *)
(* 14-44.  The database server is up and holds the target database or not; *)
(* a database that exists holds any tables, the schema's or others, and    *)
(* rows where it holds the schema's tables.  DROP, CREATE and create_all   *)
(* are DDL statements: each takes effect when it is executed.              *)
(***************************************************************************)
\* the target database as the server holds it
Database == [exists |-> database_exists, tables |-> tables, store |-> Store]

\* the server does not hold the database
NoDatabase == [exists |-> FALSE, tables |-> {}, store |-> EmptyStore]

\* lines 36-37: DROP DATABASE IF EXISTS, when delete_first
Dropped(delete_first, db) == IF delete_first THEN NoDatabase ELSE db

\* a CREATE DATABASE that listens to create_if_not_exists alone
ShouldCreate_FlagOnly(create_if_not_exists, delete_first) == create_if_not_exists

\* line 38: `if delete_first or create_if_not_exists`
ShouldCreate(create_if_not_exists, delete_first) == delete_first \/ create_if_not_exists

\* line 39: CREATE DATABASE IF NOT EXISTS
Created(db) == IF db.exists THEN db ELSE [NoDatabase EXCEPT !.exists = TRUE]

\* a create_all that does not look at SHOW TABLES: it adds the schema's missing tables
SchemaCreated_Unchecked(db) == [db EXCEPT !.tables = @ \cup SchemaTables]

\* lines 41-42: create_all when SHOW TABLES returns nothing
SchemaCreated(db) == IF db.tables = {} THEN [db EXCEPT !.tables = SchemaTables] ELSE db

\* the whole call: it returns the engine, or raises at `USE` (line 40) when the
\* database does not exist by then
Connect(create_if_not_exists, delete_first) ==
    LET dropped == Dropped(delete_first, Database)
        used == IF ShouldCreate(create_if_not_exists, delete_first)
                THEN Created(dropped) ELSE dropped
        after == IF used.exists THEN SchemaCreated(used) ELSE used
    IN  /\ database_exists' = after.exists
        /\ tables' = after.tables
        /\ dataset_table' = after.store.datasets
        /\ publication_table' = after.store.publications
        /\ link_table' = after.store.links
        /\ connection' =
              [outcome |-> IF used.exists THEN "returned" ELSE "raised",
               create_if_not_exists |-> create_if_not_exists,
               delete_first |-> delete_first,
               existed |-> database_exists, tables |-> tables, store |-> Store,
               checked |-> used.tables]
        /\ UNCHANGED <<call_vars, calls, last, response>>

\* what the target database may hold before a call: nothing, a dataset, a publication,
\* or a dataset and a publication linked to it
ConnectStores ==
    LET row == [id |-> 1, name |-> "anneal", node |-> "openml",
                node_specific_identifier |-> <<"1">>]
    IN  {EmptyStore,
         [datasets |-> {row}, publications |-> {}, links |-> {}],
         [datasets |-> {}, publications |-> {[id |-> 1, title |-> "Some other paper"]},
          links |-> {}],
         [datasets |-> {row},
          publications |-> {[id |-> 1, title |-> "Some other paper"]},
          links |-> {[publication_id |-> 1, dataset_id |-> 1]}]}

ConnectInit ==
    /\ database_exists \in BOOLEAN
    /\ tables \in SUBSET (SchemaTables \cup {"other"})
    /\ ~database_exists => tables = {}
    /\ \E st \in ConnectStores :
          /\ NonEmptyStore(st) => SchemaTables \subseteq tables
          /\ dataset_table = st.datasets
          /\ publication_table = st.publications
          /\ link_table = st.links
    /\ pc = [p \in Callers |-> "idle"]
    /\ only_if_empty = [p \in Callers |-> TRUE]
    /\ config = [p \in Callers |-> NoConfig]
    /\ datasets = [p \in Callers |-> <<>>]
    /\ publications = [p \in Callers |-> <<>>]
    /\ data_exists = [p \in Callers |-> FALSE]
    /\ before = [p \in Callers |-> EmptyStore]
    /\ repeat = [p \in Callers |-> FALSE]
    /\ given = [p \in Callers |-> NotGiven]
    /\ events = [p \in Callers |-> <<>>]
    /\ calls = 0
    /\ last = NoCall
    /\ response = NoResponse
    /\ connection = NoConnection

ConnectNext ==
    \E create_if_not_exists \in BOOLEAN, delete_first \in BOOLEAN :
        Connect(create_if_not_exists, delete_first)

ConnectSpec == ConnectInit /\ [][ConnectNext]_vars

(***************************************************************************)
(* populate_database called by clients that do not wait for one another:   *)
(* a call starts while other calls run, and the steps of the running calls *)
(* interleave.  Each step is one statement against the store; the commit   *)
(* of lines 84-86 is one transaction.                                      *)
(***************************************************************************)
\* the configurations of the concurrent calls
RaceConfigs ==
    {[dataset_connectors |-> d, publications_connectors |-> ConnectorList(<<ConnectorP>>),
      limit_datasets |-> NoLimit, limit_publications |-> NoLimit] :
        d \in {NoConnectors, ConnectorList(<<ConnectorA>>),
                ConnectorList(<<ConnectorA, ConnectorB>>),
                ConnectorList(<<ConnectorA, FailingConnector>>)}}

ConcurrentCall(p) ==
    \E oie \in BOOLEAN, cfg \in RaceConfigs : Call(p, oie, cfg)

ConcurrentNext ==
    \E p \in Callers :
        \/ ConcurrentCall(p)
        \/ Fetch(p)
        \/ Link(p)
        \/ ReadStore(p)
        \/ Decide(p)

ConcurrentSpec == Init /\ [][ConcurrentNext]_vars

(***************************************************************************)
(* Properties of populate_database, checked under Spec.                    *)
(***************************************************************************)
NonEmpty(st) == st.datasets /= {} \/ st.publications /= {}

CallEnded == last.outcome /= "none"

\* C1: a populate call with only_if_empty=true that starts on a store holding at
\* least one dataset or publication row leaves dataset rows, publication rows and
\* link rows exactly as they were, whatever the connectors and limits.
C1_GuardedPopulateIsNoOp ==
    (CallEnded /\ last.only_if_empty /\ NonEmpty(last.before)) => Store = last.before

\* a guarded call ended on a non-empty store although it had records to insert
C1_Witness ==
    /\ last.outcome = "returned"
    /\ last.only_if_empty
    /\ NonEmpty(last.before)
    /\ last.datasets /= <<>>
    /\ last.publications /= <<>>

\* the number of positions of ds holding record d
Occurrences(ds, d) == Cardinality({i \in DOMAIN ds : ds[i] = d})

\* the fields of a dataset row without its key
Fields(r) == DatasetDescription(r.name, r.node, r.node_specific_identifier)

RECURSIVE TotalReferences(_)
TotalReferences(ps) ==
    IF ps = <<>> THEN 0 ELSE Len(Head(ps).datasets) + TotalReferences(Tail(ps))

\* the store is the store `st` plus one row per record of ds and of ps, plus one link
\* row per reference of a publication of ps
ExtendedBy(st, ds, ps) ==
    LET new_d == dataset_table \ st.datasets
        new_p == publication_table \ st.publications
        new_l == link_table \ st.links
    IN  /\ st.datasets \subseteq dataset_table
        /\ st.publications \subseteq publication_table
        /\ st.links \subseteq link_table
        /\ Cardinality(new_d) = Len(ds)
        /\ \A i \in DOMAIN ds :
              Cardinality({r \in new_d : Fields(r) = ds[i]}) = Occurrences(ds, ds[i])
        /\ Cardinality(new_p) = Len(ps)
        /\ \A j \in DOMAIN ps :
              Cardinality({r \in new_p : r.title = ps[j].title})
                  = Cardinality({k \in DOMAIN ps : ps[k].title = ps[j].title})
        /\ Cardinality(new_l) = TotalReferences(ps)
        /\ \A j \in DOMAIN ps : \A k \in DOMAIN ps[j].datasets :
              \E l \in new_l, pr \in new_p, dr \in new_d :
                  /\ l.publication_id = pr.id /\ l.dataset_id = dr.id
                  /\ pr.title = ps[j].title
                  /\ Fields(dr) = ds[ps[j].datasets[k]]

\* a connector of the call's configuration fails on fetch_all
SomeFetchFails(cfg) ==
    \/ \E k \in DOMAIN cfg.dataset_connectors.items : cfg.dataset_connectors.items[k].fails
    \/ \E k \in DOMAIN cfg.publications_connectors.items :
          cfg.publications_connectors.items[k].fails

\* C2: after any populate call the store is either unchanged or extended by every
\* fetched dataset and every fetched publication with their links; when a
\* connector's fetch_all fails the call fails and the store is unchanged.
C2_AllOrNothing ==
    CallEnded =>
        /\ \/ Store = last.before
           \/ /\ last.outcome = "committed"
              /\ Len(last.datasets) =
                    Len(Materialize(last.config.dataset_connectors,
                                    last.config.limit_datasets))
              /\ Len(last.publications) =
                    Len(Materialize(last.config.publications_connectors,
                                    last.config.limit_publications))
              /\ ExtendedBy(last.before, last.datasets, last.publications)
        /\ last.outcome = "committed" =>
              ExtendedBy(last.before, last.datasets, last.publications)
        /\ SomeFetchFails(last.config) =>
              (last.outcome = "fetch_raised" /\ Store = last.before)

\* a call committed two datasets and three publications, some of them linked
C2_Witness ==
    /\ last.outcome = "committed"
    /\ Len(last.datasets) = 2
    /\ Len(last.publications) = 3
    /\ link_table /= {}
    /\ ExtendedBy(last.before, last.datasets, last.publications)

\* C3: starting from an empty store, two populate calls in a row with
\* only_if_empty=true and the same connectors and limits leave as many dataset rows
\* and publication rows as the first call alone left.
C3_TwiceIsOnce ==
    last.repeat =>
        /\ Cardinality(dataset_table) = Cardinality(last.before.datasets)
        /\ Cardinality(publication_table) = Cardinality(last.before.publications)

\* the second of two such calls ended, and the first had inserted rows
C3_Witness ==
    /\ last.repeat
    /\ last.datasets /= <<>>
    /\ dataset_table /= {}
    /\ publication_table /= {}

(***************************************************************************)
(* Properties of the read endpoints, checked under Spec.                   *)
(***************************************************************************)
\* the latest reply answers a lookup of a pair that has a row in the store
LookupHit ==
    /\ response.kind = "dataset"
    /\ \E r \in dataset_table :
          /\ r.node = response.request.node
          /\ r.node_specific_identifier = response.request.identifier

\* the latest reply answers a lookup of a pair that has no row in the store
LookupMiss ==
    /\ response.kind = "dataset"
    /\ ~\E r \in dataset_table :
          /\ r.node = response.request.node
          /\ r.node_specific_identifier = response.request.identifier

\* C4 as stated: a lookup of a stored pair returns the stored record and invokes
\* no connector.
C4_AsStated ==
    LookupHit =>
        /\ response.connector_calls = 0
        /\ response.status = 200
        /\ \E r \in dataset_table :
              /\ r.node = response.request.node
              /\ r.node_specific_identifier = response.request.identifier
              /\ response.body.name = r.name

\* C4: a lookup of a pair that has a row in the store invokes the node's connector
\* once: the stored row only admits the lookup, the reply is the registry's.
C4_HitInvokesConnector ==
    LookupHit =>
        /\ response.connector_calls = 1
        /\ response.status = 200 =>
              response.body.name = response.request.upstream.data.name

\* a stored pair was looked up and the reply carries the registry's name, which is
\* not the stored one
C4_Witness ==
    /\ LookupHit
    /\ response.status = 200
    /\ \A r \in dataset_table : r.name /= response.body.name

\* C5 as stated: a lookup of a pair with no row in the store that the registry holds
\* succeeds with the registry's fields.
C5_AsStated ==
    (LookupMiss /\ response.request.upstream.ok) =>
        /\ response.status = 200
        /\ response.body.name = response.request.upstream.data.name

\* C5: a lookup of a pair that has a row in the store and that the registry holds
\* succeeds, and name, description, content URL, encoding format, size, catalog name
\* and identifier of the reply are the registry's.
C5_HitReturnsUpstreamFields ==
    (LookupHit /\ response.request.upstream.ok) =>
        /\ response.status = 200
        /\ response.body.name = response.request.upstream.data.name
        /\ response.body.description = response.request.upstream.data.description
        /\ response.body.distribution.contentUrl = response.request.upstream.data.url
        /\ response.body.distribution.encodingFormat = response.request.upstream.data.format
        /\ response.body.size.value = response.request.upstream.data.instances
        /\ response.body.includedInDataCatalog.name = "OpenML"
        /\ response.body.identifier = Str(response.request.identifier)

\* the lookup of the stored pair ("openml", "181") succeeded with the registry's record
C5_Witness ==
    /\ LookupHit
    /\ response.request.upstream.ok
    /\ response.status = 200
    /\ response.body.identifier = "181"
    /\ response.body.size.value = 898

\* C6 as stated: a lookup of a pair absent from the store for which the registry
\* reports an error with message X fails with a detail that embeds X.
C6_AsStated ==
    (LookupMiss /\ ~response.request.upstream.ok) =>
        /\ response.status = 404
        /\ response.detail =
              "Error while fetching data from OpenML: '"
                  \o response.request.upstream.message \o "'"

\* C6: a lookup of a pair that has a row in the store for which the registry reports
\* an error with message X fails with status 404 and the detail
\* "Error while fetching data from OpenML: 'X'".
C6_HitUpstreamErrorEmbedsMessage ==
    (LookupHit /\ ~response.request.upstream.ok) =>
        /\ response.status = 404
        /\ response.detail =
              "Error while fetching data from OpenML: '"
                  \o response.request.upstream.message \o "'"

\* the lookup of a stored pair failed with the registry's "Unknown dataset"
C6_Witness ==
    /\ LookupHit
    /\ ~response.request.upstream.ok
    /\ response.detail = "Error while fetching data from OpenML: 'Unknown dataset'"

\* C7: a lookup of a pair that has no row in the store, while other rows exist, ends
\* with status 404 and the detail "Dataset '<id>' of '<node>' not found in the
\* database.", whatever the registry holds.
C7_MissIsNotFoundInDatabase ==
    (LookupMiss /\ dataset_table /= {}) =>
        /\ response.status = 404
        /\ response.connector_calls = 0
        /\ response.detail =
              "Dataset '" \o Str(response.request.identifier) \o "' of '"
                  \o response.request.node \o "' not found in the database."

\* "1" of "openml" was looked up in a store that holds other rows only, and the
\* registry holds it
C7_Witness ==
    /\ LookupMiss
    /\ dataset_table /= {}
    /\ response.request.upstream.ok
    /\ response.detail = "Dataset '1' of 'openml' not found in the database."

Linked(p) == pc[p] = "session"

\* C8: after linking, every publication titled "AMLB: an AutoML Benchmark" references
\* exactly the datasets of the batch with node "openml" whose identifier, parsed as
\* an integer, is in the allow-list, each once.
C8_BenchmarkPublicationLinks ==
    \A p \in Callers : Linked(p) =>
        \A j \in DOMAIN publications[p] :
            publications[p][j].title = "AMLB: an AutoML Benchmark" =>
                /\ Range(publications[p][j].datasets) =
                      {i \in DOMAIN datasets[p] :
                          /\ datasets[p][i].node = "openml"
                          /\ ParseInt(datasets[p][i].node_specific_identifier).val
                                \in benchmark_dataset_ids}
                /\ Len(publications[p][j].datasets)
                      = Cardinality(Range(publications[p][j].datasets))

\* a benchmark publication was linked to "03" of "openml" and not to the batch's
\* other dataset, which carries an allow-listed identifier on another node
C8_Witness ==
    \E p \in Callers :
        /\ Linked(p)
        /\ Len(datasets[p]) = 2
        /\ datasets[p][1] = DatasetDescription("Higgs", "other_node", <<"1", "8", "1">>)
        /\ datasets[p][2] = DatasetDescription("anneal", "openml", <<"0", "3">>)
        /\ \E j \in DOMAIN publications[p] :
              /\ publications[p][j].title = "AMLB: an AutoML Benchmark"
              /\ publications[p][j].datasets = <<2>>

\* C9: after linking, every publication titled "Searching for exotic particles in
\* high-energy physics with deep learning" references exactly the datasets of the
\* batch with node "openml" and name "Higgs"; a "Higgs" of another node is not among
\* them.
C9_HiggsPublicationLinks ==
    \A p \in Callers : Linked(p) =>
        \A j \in DOMAIN publications[p] :
            publications[p][j].title =
                "Searching for exotic particles in high-energy physics with deep learning" =>
                /\ Range(publications[p][j].datasets) =
                      {i \in DOMAIN datasets[p] :
                          datasets[p][i].node = "openml" /\ datasets[p][i].name = "Higgs"}
                /\ \A k \in DOMAIN publications[p][j].datasets :
                      datasets[p][publications[p][j].datasets[k]].node /= "other_node"

\* the Higgs publication was linked to the "Higgs" of "openml" and not to the "Higgs"
\* of "other_node" in the same batch
C9_Witness ==
    \E p \in Callers :
        /\ Linked(p)
        /\ Len(datasets[p]) = 2
        /\ datasets[p][1].name = "Higgs" /\ datasets[p][1].node = "other_node"
        /\ datasets[p][2].name = "Higgs" /\ datasets[p][2].node = "openml"
        /\ \E j \in DOMAIN publications[p] :
              /\ publications[p][j].title = higgs_title
              /\ publications[p][j].datasets = <<2>>

\* the two titles the linker looks for
FixedTitles ==
    {"AMLB: an AutoML Benchmark",
     "Searching for exotic particles in high-energy physics with deep learning"}

\* the positions of the batch ds that the rule of a fixed title selects
RuleSet(ds, title) ==
    IF title = "AMLB: an AutoML Benchmark"
    THEN {i \in DOMAIN ds :
            /\ ds[i].node = "openml"
            /\ ParseInt(ds[i].node_specific_identifier).val \in benchmark_dataset_ids}
    ELSE {i \in DOMAIN ds : ds[i].node = "openml" /\ ds[i].name = "Higgs"}

\* C13: after linking, the datasets of a publication with one of the two fixed titles
\* are exactly the datasets of the current batch that the title's rule selects, each
\* once, whatever the publication referenced before; they are empty when the rule
\* selects nothing.
C13_LinkAssigns ==
    \A p \in Callers : Linked(p) =>
        \A j \in DOMAIN given[p].publications :
            given[p].publications[j].title \in FixedTitles =>
                LET rule == RuleSet(given[p].datasets, given[p].publications[j].title)
                    now == publications[p][j].datasets
                IN  /\ Range(now) = rule
                    /\ Len(now) = Cardinality(rule)
                    /\ rule = {} => now = <<>>

\* a Higgs publication that referenced both datasets of the batch references only the
\* "Higgs" of "openml" after linking, and a benchmark publication that referenced a
\* dataset references none, no dataset of the batch being on the allow-list
C13_Witness ==
    \E p \in Callers :
        /\ Linked(p)
        /\ Len(given[p].publications) = 2
        /\ given[p].publications[1].title =
              "Searching for exotic particles in high-energy physics with deep learning"
        /\ given[p].publications[1].datasets = <<1, 2>>
        /\ publications[p][1].datasets = <<1>>
        /\ given[p].publications[2].title = "AMLB: an AutoML Benchmark"
        /\ given[p].publications[2].datasets = <<1>>
        /\ publications[p][2].datasets = <<>>

\* C18: linking returns the datasets it was given, and the publications it was given
\* in the same order with the same titles; a publication whose title is none of the
\* two fixed titles references the datasets it referenced before.
C18_LinkFrame ==
    \A p \in Callers : Linked(p) =>
        /\ datasets[p] = given[p].datasets
        /\ Len(publications[p]) = Len(given[p].publications)
        /\ \A j \in DOMAIN given[p].publications :
              /\ publications[p][j].title = given[p].publications[j].title
              /\ given[p].publications[j].title \notin FixedTitles =>
                    publications[p][j].datasets = given[p].publications[j].datasets

\* a publication with another title keeps the two datasets it referenced while the
\* benchmark publication of the same batch is given new ones
C18_Witness ==
    \E p \in Callers :
        /\ Linked(p)
        /\ Len(given[p].publications) = 2
        /\ given[p].publications[1].title \notin FixedTitles
        /\ given[p].publications[1].datasets = <<1, 2>>
        /\ publications[p][1].datasets = <<1, 2>>
        /\ given[p].publications[2].title = "AMLB: an AutoML Benchmark"
        /\ publications[p][2].datasets /= given[p].publications[2].datasets

\* in the events ev of a call, every fetch_all and the linking come before the first
\* read of the store
FetchedAndLinkedBeforeRead(ev) ==
    \A i, j \in DOMAIN ev :
        (ev[j] = "select" /\ ev[i] \in {"fetch_all", "link"}) => i < j

\* C16: in every populate call the fetch_all invocations and the linking come before
\* the first read of the store, and a call that reads the store has invoked fetch_all
\* on every configured connector and has linked; a call with only_if_empty=true on a
\* non-empty store invokes fetch_all on every configured connector all the same, and
\* when one of the fetches fails it fails before it reads the store, writing nothing.
C16_FetchAndLinkBeforeGuard ==
    /\ \A p \in Callers :
          /\ FetchedAndLinkedBeforeRead(events[p])
          /\ "select" \in Range(events[p])
                => /\ Occurrences(events[p], "fetch_all") = ConnectorCount(config[p])
                   /\ "link" \in Range(events[p])
    /\ CallEnded
          => /\ FetchedAndLinkedBeforeRead(last.events)
             /\ Occurrences(last.events, "fetch_all") = ConnectorCount(last.config)
             /\ "select" \in Range(last.events) => "link" \in Range(last.events)
             /\ (last.only_if_empty /\ NonEmpty(last.before))
                   => IF SomeFetchFails(last.config)
                      THEN /\ last.outcome = "fetch_raised"
                           /\ "select" \notin Range(last.events)
                           /\ Store = last.before
                      ELSE /\ last.outcome \in {"returned", "link_raised"}
                           /\ Store = last.before

\* a call with only_if_empty=true on a non-empty store has invoked fetch_all on its
\* two connectors, linked, read the store and returned without writing
C16_Witness ==
    /\ CallEnded
    /\ last.only_if_empty
    /\ NonEmpty(last.before)
    /\ last.outcome = "returned"
    /\ ConnectorCount(last.config) = 2
    /\ last.events = <<"fetch_all", "fetch_all", "link", "select">>
    /\ last.datasets /= <<>>
    /\ Store = last.before

\* the batch ds holds a dataset of node `node` whose identifier int() does not accept
HasNonInteger(ds, node) ==
    \E i \in DOMAIN ds :
        /\ ds[i].node = node
        /\ ~ParseInt(ds[i].node_specific_identifier).ok

\* C17: a populate call whose fetches succeed fails in the linker exactly when a
\* fetched dataset has node "openml" and an identifier that is not an integer, and
\* then no row is written; a dataset of another node does not make the call fail,
\* whatever its identifier.
C17_NonIntegerOpenmlIdentifierRaises ==
    (CallEnded /\ last.outcome /= "fetch_raised")
        => /\ last.outcome = "link_raised" <=> HasNonInteger(last.datasets, "openml")
           /\ last.outcome = "link_raised"
                 => /\ Store = last.before
                    /\ "select" \notin Range(last.events)
                    /\ "commit" \notin Range(last.events)
           /\ ~HasNonInteger(last.datasets, "openml")
                 => last.outcome \in {"returned", "committed"}

\* a call without the guard, on a non-empty store, fetched "x" of "openml" next to
\* "x" of "other_node", failed in the linker and wrote nothing
C17_Witness ==
    /\ last.outcome = "link_raised"
    /\ ~last.only_if_empty
    /\ NonEmpty(last.before)
    /\ HasNonInteger(last.datasets, "openml")
    /\ HasNonInteger(last.datasets, "other_node")
    /\ Store = last.before

\* a step removes no row of the store and changes none
AppendOnlyStep ==
    /\ dataset_table \subseteq dataset_table'
    /\ publication_table \subseteq publication_table'
    /\ link_table \subseteq link_table'
    /\ Cardinality(dataset_table) <= Cardinality(dataset_table')
    /\ Cardinality(publication_table) <= Cardinality(publication_table')
    /\ Cardinality(link_table) <= Cardinality(link_table')

\* the call that ended last had only_if_empty=false and started on a non-empty store
UnguardedOnNonEmpty ==
    CallEnded /\ ~last.only_if_empty /\ NonEmpty(last.before)

C14_DeleteFirstLeavesEmptySchema ==
    (connection.outcome /= "none" /\ connection.delete_first)
        => /\ connection.outcome = "returned"
           /\ database_exists
           /\ tables = SchemaTables
           /\ Store = EmptyStore

\* a call with delete_first=true and create_if_not_exists=false has returned on a
\* database that held the schema's tables, another table, and rows
C14_Witness ==
    /\ connection.outcome = "returned"
    /\ connection.delete_first
    /\ ~connection.create_if_not_exists
    /\ connection.existed
    /\ connection.tables = SchemaTables \cup {"other"}
    /\ connection.store.links /= {}
    /\ Store = EmptyStore

\* C15: a call that returns has created the schema exactly when SHOW TABLES returned
\* no table; a call with delete_first=false on a database that held at least one
\* table leaves its tables and its rows as they were.
C15_SchemaCreatedIffNoTables ==
    connection.outcome = "returned"
        => /\ IF connection.checked = {}
              THEN tables = SchemaTables
              ELSE tables = connection.checked
           /\ (~connection.delete_first /\ connection.tables /= {})
                 => /\ tables = connection.tables
                    /\ Store = connection.store

\* a call with delete_first=false has returned on a database that held rows and a
\* table besides the schema's, and all of it is still there
C15_Witness ==
    /\ connection.outcome = "returned"
    /\ ~connection.delete_first
    /\ connection.tables = SchemaTables \cup {"other"}
    /\ connection.checked = connection.tables
    /\ connection.store.links /= {}
    /\ tables = connection.tables
    /\ Store = connection.store

(***************************************************************************)
(* Properties of concurrent populate_database calls, checked under         *)
(* ConcurrentSpec.                                                         *)
(***************************************************************************)
\* two rows of the dataset table carry the same (node, node_specific_identifier)
DuplicateNaturalKeys ==
    \E r1, r2 \in dataset_table :
        /\ r1.id /= r2.id
        /\ r1.node = r2.node
        /\ r1.node_specific_identifier = r2.node_specific_identifier

\* C11: the guard of a call with only_if_empty set is the value the call read, not
\* the store at commit time: a call that read the store as empty inserts its whole
\* batch, also when another call has committed in between.  Two such calls that
\* both read an empty store therefore both insert (C11_Witness is that interleaving).
C11_StaleGuardInserts ==
    (/\ last.outcome \in {"returned", "committed"}
     /\ last.only_if_empty
     /\ ~last.data_exists)
        => /\ last.outcome = "committed"
           /\ ExtendedBy(last.found, last.datasets, last.publications)

\* two calls with only_if_empty set started on the empty store, both read it as empty,
\* both committed, and every fetched dataset is stored twice
C11_Witness ==
    /\ last.outcome = "committed"
    /\ last.only_if_empty
    /\ last.before = EmptyStore
    /\ ~last.data_exists
    /\ last.rival
    /\ NonEmpty(last.found)
    /\ last.datasets /= <<>>
    /\ \A i \in DOMAIN last.datasets :
          Cardinality({r \in dataset_table : Fields(r) = last.datasets[i]})
              = 2 * Occurrences(last.datasets, last.datasets[i])
    /\ DuplicateNaturalKeys

====
